---------------------------- MODULE Spec2Model ----------------------------
(***************************************************************************)
(* Model of smooth_filter_openmp.c: the BMP codec (readBmp, writeBmp), the *)
(* box-blur kernel (processImageSmoothFilter, an OpenMP parallel for over  *)
(* the rows) and the driver (main).                                        *)
(*                                                                         *)
(* Machine integers.  size_t values are kept as their two's-complement     *)
(* representative: a value v >= 0 stands for v, a value v < 0 stands for   *)
(* 2^64 + v (what (size_t)atoi("-1") produces).  Addition and subtraction  *)
(* of representatives are exact as long as the result stays inside the     *)
(* signed range, which it does for every value of the model; comparisons   *)
(* are the unsigned ones (ULess).  The unsigned int accumulators r, g, b   *)
(* wrap at 2^32; every sum of the model stays below 2^31, so the wrap      *)
(* never applies and the sums are plain.                                   *)
(***************************************************************************)
EXTENDS Integers, Sequences

(* ------------------------------ bounds -------------------------------- *)

\* Largest width / height byte put in the header of an input file (driver
\* and codec specifications).
MaxWidth == 2
MaxHeight == 2
\* Largest team the OpenMP runtime grants in the model (the code asks for 4).
MaxTeam == 2
\* Radii 0..MaxRadius are given on the command line, and -1.
MaxRadius == 2
\* Input files are generated from the seeds 0..MaxSeed.
MaxSeed == 1
\* Images of the kernel specification are at most KMax x KMax.
KMax == 2
\* The region specification follows the first RegionCalls calls of the kernel.
RegionCalls == 2

(* ------------------------- program constants -------------------------- *)

BMP_HEADER_SIZE == 54
BMP_HEADER_WIDTH_OFFSET == 18
BMP_HEADER_HEIGHT_OFFSET == 22
PIXEL_REAL_SIZE == 3
\* for (int i = 0; i < 100; i++) in main
BenchmarkRuns == 100
\* float: 24 significant bits
FloatMantBits == 24

(* --------------------------- machine words ---------------------------- *)

\* a < b on size_t, the operands given by their representatives
ULess(a, b) ==
    IF (a >= 0) = (b >= 0) THEN a < b ELSE a >= 0

\* unsigned char of three bytes from the file, in file order
Pixel(x1, x2, x3) == [b |-> x1, g |-> x2, r |-> x3]

\* the content of freshly malloc'ed memory: no value of the program
\* (malloc is taken to succeed: the code does not look at its result)
Undef == [b |-> -1, g |-> -1, r |-> -1]

\* *((const unsigned int*)(header + offset)) on a little-endian build
LittleEndian32(header, offset) ==
    header[offset + 1] + 256 * header[offset + 2]
        + 65536 * header[offset + 3] + 16777216 * header[offset + 4]

getWidth(header) == LittleEndian32(header, BMP_HEADER_WIDTH_OFFSET)

getHeight(header) == LittleEndian32(header, BMP_HEADER_HEIGHT_OFFSET)

(* ------------------------------ float --------------------------------- *)

\* (float)n for an integer 0 <= n < 2^31: round to nearest, ties to even,
\* to 24 significant bits.  The result is again an integer.
RECURSIVE ShiftFor(_, _)
ShiftFor(n, s) ==
    IF n \div (2 ^ s) < 2 ^ FloatMantBits THEN s ELSE ShiftFor(n, s + 1)

ToFloat(n) ==
    LET s == ShiftFor(n, 0)
        q == n \div (2 ^ s)
        rem == n % (2 ^ s)
        up == 2 * rem > 2 ^ s \/ (2 * rem = 2 ^ s /\ q % 2 = 1)
    IN  IF s = 0 THEN n ELSE (IF up THEN q + 1 ELSE q) * (2 ^ s)

\* long division: q / 2^k is the quotient a / b cut after k binary places,
\* rem the remainder at that place; stops at 24 significant bits
RECURSIVE DivBits(_, _, _, _)
DivBits(q, rem, b, k) ==
    IF q >= 2 ^ (FloatMantBits - 1)
    THEN [q |-> q, rem |-> rem, k |-> k]
    ELSE LET bit == IF 2 * rem >= b THEN 1 ELSE 0
         IN  DivBits(2 * q + bit, 2 * rem - bit * b, b, k + 1)

\* the float a / b of two floats with integer values, b > 0: the quotient
\* rounded to nearest, ties to even, as [m, k] standing for m / 2^k
FloatDiv(a, b) ==
    IF a = 0 THEN [m |-> 0, k |-> 0]
    ELSE LET d == DivBits(a \div b, a % b, b, 0)
             up == 2 * d.rem > b \/ (2 * d.rem = b /\ d.q % 2 = 1)
         IN  [m |-> IF up THEN d.q + 1 ELSE d.q, k |-> d.k]

\* (unsigned char)((x) + 0.5) with x the float m / 2^k promoted to double:
\* the sum is exact and the conversion truncates.  The mean of bytes is at
\* most 255, so the value converted is below 256.
ROUND(x) ==
    IF x.k = 0 THEN x.m
    ELSE IF x.k > FloatMantBits + 1 THEN 0
    ELSE (x.m + 2 ^ (x.k - 1)) \div (2 ^ x.k)

\* ROUND((float)r / count): r is converted to float, count (a size_t) is
\* converted to float by the usual arithmetic conversions
RoundedMean(sum, count) == ROUND(FloatDiv(ToFloat(sum), ToFloat(count)))

(* ------------------------------ kernel -------------------------------- *)

\* starti = i < radius ? 0 : i - radius
WindowStart(i, radius) ==
    IF ULess(i, radius) THEN 0 ELSE i - radius

WindowEndOffByOne(i, radius, n) ==
    IF ~ULess(i + radius + 1, n) THEN n - 1 ELSE i + radius + 1

\* endi = i + radius >= height ? height - 1 : i + radius
WindowEnd(i, radius, n) ==
    IF ~ULess(i + radius, n) THEN n - 1 ELSE i + radius

\* r += bmp[position].r ... over ii = starti..endi, jj = startj..endj
RECURSIVE SumRows(_, _, _, _, _, _)
RECURSIVE SumCols(_, _, _, _, _)
SumCols(bmp, width, ii, jj, endj) ==
    IF jj > endj THEN [b |-> 0, g |-> 0, r |-> 0]
    ELSE LET p == bmp[ii * width + jj + 1]
             rest == SumCols(bmp, width, ii, jj + 1, endj)
         IN  [b |-> p.b + rest.b, g |-> p.g + rest.g, r |-> p.r + rest.r]

SumRows(bmp, width, ii, endi, startj, endj) ==
    IF ii > endi THEN [b |-> 0, g |-> 0, r |-> 0]
    ELSE LET row == SumCols(bmp, width, ii, startj, endj)
             rest == SumRows(bmp, width, ii + 1, endi, startj, endj)
         IN  [b |-> row.b + rest.b, g |-> row.g + rest.g, r |-> row.r + rest.r]

\* the private variables of one iteration (i, j) after the summation loop
Iteration(bmp, width, height, radius, i, j) ==
    LET starti == WindowStart(i, radius)
        endi == WindowEnd(i, radius, height)
        startj == WindowStart(j, radius)
        endj == WindowEnd(j, radius, width)
        sum == SumRows(bmp, width, starti, endi, startj, endj)
    IN  [i |-> i, j |-> j,
         starti |-> starti, endi |-> endi, startj |-> startj, endj |-> endj,
         count |-> (endi - starti + 1) * (endj - startj + 1),
         r |-> sum.r, g |-> sum.g, b |-> sum.b]

\* result[resultPosition].r = ROUND((float)r / count); ... g ...; ... b
StoredPixel(it) ==
    [b |-> RoundedMean(it.b, it.count),
     g |-> RoundedMean(it.g, it.count),
     r |-> RoundedMean(it.r, it.count)]

\* the whole loop nest run by one thread
SmoothFilter(bmp, width, height, radius) ==
    [p \in 1..(width * height) |->
        StoredPixel(Iteration(bmp, width, height, radius,
                              (p - 1) \div width, (p - 1) % width))]


(* ------------------------------- state -------------------------------- *)

VARIABLES
    pc,          \* where main (and the codec function it called) stands
    argc,        \* main's argc
    radius,      \* (size_t)atoi(argv[3])
    inFile,      \* the input file: [exists, bytes]
    inOpen,      \* readBmp's fileBmp is open
    rk,          \* readBmp's loop index i
    header,      \* unsigned char header[54], as far as it was read
    width,       \* main's width and height
    height,
    bmp,         \* the pixels bmp points to (<<>> when it points nowhere)
    resultBmp,   \* the pixels resultBmp points to
    ptr,         \* the two pointers: "none" (not declared yet), "NULL", "heap"
    allocs,      \* allocateMemory calls made for each pointer
    frees,       \* deallocateMemory calls made on each pointer
    readResult,  \* "unset", "ok", "fail"
    writeResult,
    iter,        \* the benchmark loop's i
    team,        \* threads of the current parallel region
    unclaimed,   \* rows of the current region no thread has taken
    workers,     \* per thread: the row it runs (-1: none), the column it
                 \* comes to, the private variables of the row's last
                 \* iteration
    stores,      \* per result position: the stores made to it in the
                 \* current region
    claims,      \* per row: how often it was taken in the current region
    warg,        \* writeBmp's bmp argument: "bmp" or "resultBmp"
    outFile,     \* the output file: [open, bytes]
    wk,          \* writeBmp's loop index i
    nullOps,     \* stdio calls made on a NULL FILE*
    stdout,      \* the lines printed
    exitStatus   \* -1 while running

vars == <<pc, argc, radius, inFile, inOpen, rk, header, width, height, bmp,
          resultBmp, ptr, allocs, frees, readResult, writeResult, iter, team,
          unclaimed, workers, stores, claims, warg, outFile, wk, nullOps,
          stdout, exitStatus>>

codecVars == <<inOpen, rk, header, readResult, writeResult, warg, outFile, wk,
               nullOps>>

regionVars == <<team, unclaimed, workers, stores, claims>>

Threads == 1..MaxTeam

NoIteration == [i |-> -1, j |-> -1, starti |-> 0, endi |-> 0, startj |-> 0,
                endj |-> 0, count |-> 0, r |-> 0, g |-> 0, b |-> 0]

IdleWorker == [row |-> -1, col |-> 0, it |-> NoIteration]

(* ---------------------------- input files ----------------------------- *)

\* byte k of the pixel data generated from a seed
SeedByte(seed, k) == ((2 * seed + 1) * 85 * k + 255 * seed) % 256

\* byte k (from 0) of the header of a w x h image: the two size fields,
\* "BM" and otherwise bytes that depend on the place
HeaderByte(w, h, k) ==
    CASE k = BMP_HEADER_WIDTH_OFFSET -> w
      [] k = BMP_HEADER_HEIGHT_OFFSET -> h
      [] k \in (BMP_HEADER_WIDTH_OFFSET + 1)..(BMP_HEADER_WIDTH_OFFSET + 3) -> 0
      [] k \in (BMP_HEADER_HEIGHT_OFFSET + 1)..(BMP_HEADER_HEIGHT_OFFSET + 3) -> 0
      [] k = 0 -> 66
      [] k = 1 -> 77
      [] OTHER -> (k * 5) % 256

FileBytes(w, h, seed, len) ==
    [k \in 1..len |->
        IF k <= BMP_HEADER_SIZE THEN HeaderByte(w, h, k - 1)
        ELSE SeedByte(seed, k - 1 - BMP_HEADER_SIZE)]

FullLength(w, h) == BMP_HEADER_SIZE + w * h * PIXEL_REAL_SIZE

\* the lengths tried for a w x h file: the exact one, one byte more, and
\* the truncations (no byte, inside the header, inside the pixels)
FileLengths(w, h) ==
    {FullLength(w, h), FullLength(w, h) + 1, 0, BMP_HEADER_SIZE - 1}
        \cup {n \in {FullLength(w, h) - 1, FullLength(w, h) - 3,
                     BMP_HEADER_SIZE + 1} :
                n >= BMP_HEADER_SIZE /\ n < FullLength(w, h)}

FilesOfSize(w, h) ==
    {[exists |-> TRUE, bytes |-> FileBytes(w, h, seed, len)] :
        seed \in 0..MaxSeed, len \in FileLengths(w, h)}

InputFiles ==
    UNION {FilesOfSize(w, h) : w \in 0..MaxWidth, h \in 0..MaxHeight}
        \cup {[exists |-> FALSE, bytes |-> <<>>]}

\* a 54-byte header followed by exactly width*height 3-byte pixels
WellFormed(f) ==
    /\ f.exists
    /\ Len(f.bytes) >= BMP_HEADER_SIZE
    /\ Len(f.bytes) = FullLength(getWidth(f.bytes), getHeight(f.bytes))

Radii == (0..MaxRadius) \cup {-1}

\* the driver is run on the files of seed 0 that end with or before their
\* last pixel, with these radius arguments
DriverFiles ==
    {f \in InputFiles :
        /\ f.exists => Len(f.bytes) <= BMP_HEADER_SIZE
              \/ Len(f.bytes)
                    <= FullLength(getWidth(f.bytes), getHeight(f.bytes))
        /\ \A k \in (BMP_HEADER_SIZE + 1)..Len(f.bytes) :
              f.bytes[k] = SeedByte(0, k - 1 - BMP_HEADER_SIZE)}

DriverRadii == {-1, 1}

(* ------------------------------- Init --------------------------------- *)

InitRest ==
    /\ inOpen = FALSE
    /\ rk = 0
    /\ header = <<>>
    /\ width = 0
    /\ height = 0
    /\ bmp = <<>>
    /\ resultBmp = <<>>
    /\ ptr = [bmp |-> "NULL", resultBmp |-> "none"]
    /\ allocs = [bmp |-> 0, resultBmp |-> 0]
    /\ frees = [bmp |-> 0, resultBmp |-> 0]
    /\ readResult = "unset"
    /\ writeResult = "unset"
    /\ iter = 0
    /\ team = 0
    /\ unclaimed = {}
    /\ workers = [t \in Threads |-> IdleWorker]
    /\ stores = <<>>
    /\ claims = <<>>
    /\ warg = "resultBmp"
    /\ outFile = [open |-> FALSE, bytes |-> <<>>]
    /\ wk = 0
    /\ nullOps = 0
    /\ stdout = <<>>
    /\ exitStatus = -1

Init ==
    /\ pc = "main"
    /\ argc \in {2, 4}
    /\ radius \in DriverRadii
    /\ inFile \in DriverFiles
    /\ InitRest

(* ------------------------------ readBmp ------------------------------- *)

\* free(*data); *data = NULL;
deallocateMemory(p, name) == [p EXCEPT ![name] = "NULL"]

ShortReadLeak(p) == p

\* the pointers after the cleanup of a short pixel read
ShortReadCleanup(p) == deallocateMemory(p, "bmp")

\* fopen(filename, "rb")
ReadOpen ==
    /\ pc = "r_open"
    /\ IF inFile.exists
       THEN /\ inOpen' = TRUE
            /\ pc' = "r_header"
            /\ UNCHANGED readResult
       ELSE /\ readResult' = "fail"
            /\ pc' = "read_ret"
            /\ UNCHANGED inOpen
    /\ UNCHANGED <<argc, radius, inFile, rk, header, width, height, bmp,
                   resultBmp, ptr, allocs, frees, writeResult, iter, warg,
                   outFile, wk, nullOps, stdout, exitStatus>>
    /\ UNCHANGED regionVars

\* the header's fread, and on a full header the allocation of the buffer
ReadHeader ==
    /\ pc = "r_header"
    /\ IF Len(inFile.bytes) < BMP_HEADER_SIZE
       THEN /\ header' = inFile.bytes
            /\ inOpen' = FALSE
            /\ readResult' = "fail"
            /\ pc' = "read_ret"
            /\ UNCHANGED <<bmp, ptr, allocs, rk>>
       ELSE /\ header' = SubSeq(inFile.bytes, 1, BMP_HEADER_SIZE)
            /\ bmp' = [k \in 1..(getWidth(header') * getHeight(header'))
                          |-> Undef]
            /\ ptr' = [ptr EXCEPT !.bmp = "heap"]
            /\ allocs' = [allocs EXCEPT !.bmp = @ + 1]
            /\ rk' = 0
            /\ pc' = "r_pixels"
            /\ UNCHANGED <<inOpen, readResult>>
    /\ UNCHANGED <<argc, radius, inFile, width, height, resultBmp, frees,
                   writeResult, iter, warg, outFile, wk, nullOps, stdout,
                   exitStatus>>
    /\ UNCHANGED regionVars

\* size = width * height, of readBmp and of writeBmp
PixelCount == getWidth(header) * getHeight(header)

\* the bytes of the file not yet read by the pixel loop
BytesLeft == Len(inFile.bytes) - (BMP_HEADER_SIZE + PIXEL_REAL_SIZE * rk)

\* one pixel's fread of 3 bytes into (*bmp) + i
ReadPixel ==
    /\ pc = "r_pixels"
    /\ rk < PixelCount
    /\ BytesLeft >= PIXEL_REAL_SIZE
    /\ LET at == BMP_HEADER_SIZE + PIXEL_REAL_SIZE * rk
       IN  bmp' = [bmp EXCEPT ![rk + 1] =
                      Pixel(inFile.bytes[at + 1], inFile.bytes[at + 2],
                            inFile.bytes[at + 3])]
    /\ rk' = rk + 1
    /\ UNCHANGED <<pc, argc, radius, inFile, inOpen, header, width, height,
                   resultBmp, ptr, allocs, frees, readResult, writeResult,
                   iter, warg, outFile, wk, nullOps, stdout, exitStatus>>
    /\ UNCHANGED regionVars

\* a pixel's fread returns fewer than 3 bytes
ReadShort ==
    /\ pc = "r_pixels"
    /\ rk < PixelCount
    /\ BytesLeft < PIXEL_REAL_SIZE
    /\ bmp' = <<>>
    /\ ptr' = ShortReadCleanup(ptr)
    /\ frees' = [frees EXCEPT !.bmp = @ + 1]
    /\ inOpen' = FALSE
    /\ readResult' = "fail"
    /\ pc' = "read_ret"
    /\ UNCHANGED <<argc, radius, inFile, rk, header, width, height, resultBmp,
                   allocs, writeResult, iter, warg, outFile, wk, nullOps,
                   stdout, exitStatus>>
    /\ UNCHANGED regionVars

\* the loop is over: fclose, return true
ReadDone ==
    /\ pc = "r_pixels"
    /\ rk = PixelCount
    /\ inOpen' = FALSE
    /\ readResult' = "ok"
    /\ pc' = "read_ret"
    /\ UNCHANGED <<argc, radius, inFile, rk, header, width, height, bmp,
                   resultBmp, ptr, allocs, frees, writeResult, iter, warg,
                   outFile, wk, nullOps, stdout, exitStatus>>
    /\ UNCHANGED regionVars

(* ------------------------------ writeBmp ------------------------------ *)

\* the buffer writeBmp was given
WriteArg == IF warg = "bmp" THEN bmp ELSE resultBmp

PixelBytesSwapped(p) == <<p.r, p.g, p.b>>

\* fwrite(bmp + i, 1, 3, bmpFile): the struct's bytes in memory order
PixelBytes(p) == <<p.b, p.g, p.r>>

\* fopen(filename, "wb"); on failure the code calls fclose(bmpFile) with
\* bmpFile NULL before it returns
WriteOpen ==
    /\ pc = "w_open"
    /\ \E opened \in BOOLEAN :
          IF opened
          THEN /\ outFile' = [open |-> TRUE, bytes |-> <<>>]
               /\ pc' = "w_header"
               /\ UNCHANGED nullOps
          ELSE /\ nullOps' = nullOps + 1
               /\ pc' = "w_fclose_null"
               /\ UNCHANGED outFile
    /\ UNCHANGED <<argc, radius, inFile, inOpen, rk, header, width, height,
                   bmp, resultBmp, ptr, allocs, frees, readResult,
                   writeResult, iter, warg, wk, stdout, exitStatus>>
    /\ UNCHANGED regionVars

\* fclose(NULL) is undefined: one outcome is that it returns ...
WriteNullReturns ==
    /\ pc = "w_fclose_null"
    /\ writeResult' = "fail"
    /\ pc' = "write_ret"
    /\ UNCHANGED <<argc, radius, inFile, inOpen, rk, header, width, height,
                   bmp, resultBmp, ptr, allocs, frees, readResult, iter,
                   warg, outFile, wk, nullOps, stdout, exitStatus>>
    /\ UNCHANGED regionVars

\* ... the other that the process dies on the NULL dereference (SIGSEGV)
WriteNullCrashes ==
    /\ pc = "w_fclose_null"
    /\ exitStatus' = 139
    /\ pc' = "crash"
    /\ UNCHANGED <<argc, radius, inFile, inOpen, rk, header, width, height,
                   bmp, resultBmp, ptr, allocs, frees, readResult,
                   writeResult, iter, warg, outFile, wk, nullOps, stdout>>
    /\ UNCHANGED regionVars

\* fwrite(header, 1, 54, bmpFile)
WriteHeader ==
    /\ pc = "w_header"
    /\ outFile' = [outFile EXCEPT !.bytes = header]
    /\ wk' = 0
    /\ pc' = "w_pixels"
    /\ UNCHANGED <<argc, radius, inFile, inOpen, rk, header, width, height,
                   bmp, resultBmp, ptr, allocs, frees, readResult,
                   writeResult, iter, warg, nullOps, stdout, exitStatus>>
    /\ UNCHANGED regionVars

WritePixel ==
    /\ pc = "w_pixels"
    /\ wk < PixelCount
    /\ outFile' = [outFile EXCEPT !.bytes = @ \o PixelBytes(WriteArg[wk + 1])]
    /\ wk' = wk + 1
    /\ UNCHANGED <<pc, argc, radius, inFile, inOpen, rk, header, width,
                   height, bmp, resultBmp, ptr, allocs, frees, readResult,
                   writeResult, iter, warg, nullOps, stdout, exitStatus>>
    /\ UNCHANGED regionVars

\* fclose(bmpFile); return true
WriteDone ==
    /\ pc = "w_pixels"
    /\ wk = PixelCount
    /\ outFile' = [outFile EXCEPT !.open = FALSE]
    /\ writeResult' = "ok"
    /\ pc' = "write_ret"
    /\ UNCHANGED <<argc, radius, inFile, inOpen, rk, header, width, height,
                   bmp, resultBmp, ptr, allocs, frees, readResult, iter,
                   warg, wk, nullOps, stdout, exitStatus>>
    /\ UNCHANGED regionVars

(* ---------------------- processImageSmoothFilter --------------------- *)

RowsShared(rows, i) == rows

RowsLost(rows, i) == rows \ {i, i + 1}

\* "omp parallel for" hands every iteration of the row loop to one thread:
\* the rows left once row i is taken
RowsLeft(rows, i) == rows \ {i}

NoBarrier(rows, w) == TRUE

\* the implicit barrier at the end of the parallel for: every row taken and
\* every thread through with its row
JoinReady(rows, w) ==
    /\ rows = {}
    /\ \A t \in Threads : w[t].row = -1

\* entry of the parallel region; the runtime grants a team of 1..MaxTeam
Fork ==
    /\ pc = "loop"
    /\ iter < BenchmarkRuns
    /\ \E n \in 1..MaxTeam : team' = n
    /\ unclaimed' = 0..(height - 1)
    /\ workers' = [t \in Threads |-> IdleWorker]
    /\ stores' = [p \in 1..(width * height) |-> 0]
    /\ claims' = [i \in 0..(height - 1) |-> 0]
    /\ pc' = "kernel"
    /\ UNCHANGED <<argc, radius, inFile, width, height, bmp, resultBmp, ptr,
                   allocs, frees, iter, stdout, exitStatus>>
    /\ UNCHANGED codecVars

\* a thread of the team takes a row (any schedule: any free thread, any row
\* not taken yet); with width 0 the row's inner loop has no iteration
Claim(t) ==
    /\ pc = "kernel"
    /\ t <= team
    /\ workers[t].row = -1
    /\ \E i \in unclaimed :
          /\ unclaimed' = RowsLeft(unclaimed, i)
          /\ claims' = [claims EXCEPT ![i] = @ + 1]
          /\ workers' = [workers EXCEPT
                            ![t].row = IF width = 0 THEN -1 ELSE i,
                            ![t].col = 0]
    /\ UNCHANGED <<pc, argc, radius, inFile, width, height, bmp, resultBmp,
                   ptr, allocs, frees, iter, team, stores, stdout,
                   exitStatus>>
    /\ UNCHANGED codecVars

\* one iteration (i, j) of the loop body: window, sums, the three stores
Step(t) ==
    /\ pc = "kernel"
    /\ t <= team
    /\ workers[t].row >= 0
    /\ LET i == workers[t].row
           j == workers[t].col
           it == Iteration(bmp, width, height, radius, i, j)
           resultPosition == i * width + j
       IN  /\ resultBmp' = [resultBmp EXCEPT
                               ![resultPosition + 1] = StoredPixel(it)]
           /\ stores' = [stores EXCEPT ![resultPosition + 1] = @ + 1]
           /\ workers' = [workers EXCEPT
                             ![t] = IF j + 1 = width
                                    THEN IdleWorker
                                    ELSE [row |-> i, col |-> j + 1,
                                          it |-> it]]
    /\ UNCHANGED <<pc, argc, radius, inFile, width, height, bmp, ptr, allocs,
                   frees, iter, team, unclaimed, claims, stdout, exitStatus>>
    /\ UNCHANGED codecVars

\* the region ends, processImageSmoothFilter returns, i++
Join ==
    /\ pc = "kernel"
    /\ JoinReady(unclaimed, workers)
    /\ iter' = iter + 1
    /\ pc' = "loop"
    /\ UNCHANGED <<argc, radius, inFile, width, height, bmp, resultBmp, ptr,
                   allocs, frees, stdout, exitStatus>>
    /\ UNCHANGED regionVars
    /\ UNCHANGED codecVars

(* ------------------------------- main --------------------------------- *)

\* argc check, argv, radius, header and bmp = NULL
MainArgs ==
    /\ pc = "main"
    /\ IF argc # 4
       THEN /\ stdout' = Append(stdout, "Usage")
            /\ exitStatus' = 0
            /\ pc' = "exit"
       ELSE /\ pc' = "r_open"
            /\ UNCHANGED <<stdout, exitStatus>>
    /\ UNCHANGED <<argc, radius, inFile, width, height, bmp, resultBmp, ptr,
                   allocs, frees, iter>>
    /\ UNCHANGED regionVars
    /\ UNCHANGED codecVars

\* readBmp has returned
MainAfterRead ==
    /\ pc = "read_ret"
    /\ IF readResult = "fail"
       THEN /\ stdout' = Append(stdout, "Cannot read bmp file input")
            /\ exitStatus' = 1
            /\ pc' = "exit"
            /\ UNCHANGED <<width, height, resultBmp, ptr, allocs, iter>>
       ELSE /\ width' = getWidth(header)
            /\ height' = getHeight(header)
            /\ resultBmp' = [k \in 1..(width' * height') |-> Undef]
            /\ ptr' = [ptr EXCEPT !.resultBmp = "heap"]
            /\ allocs' = [allocs EXCEPT !.resultBmp = @ + 1]
            /\ iter' = 0
            /\ pc' = "loop"
            /\ UNCHANGED <<stdout, exitStatus>>
    /\ UNCHANGED <<argc, radius, inFile, bmp, frees>>
    /\ UNCHANGED regionVars
    /\ UNCHANGED codecVars

\* the benchmark loop is over: writeBmp(outputBmpFileName, header, resultBmp)
CallWrite ==
    /\ pc = "loop"
    /\ ~(iter < BenchmarkRuns)
    /\ warg' = "resultBmp"
    /\ pc' = "w_open"
    /\ UNCHANGED <<argc, radius, inFile, inOpen, rk, header, width, height,
                   bmp, resultBmp, ptr, allocs, frees, readResult,
                   writeResult, iter, outFile, wk, nullOps, stdout,
                   exitStatus>>
    /\ UNCHANGED regionVars

\* writeBmp has returned
MainAfterWrite ==
    /\ pc = "write_ret"
    /\ IF writeResult = "fail"
       THEN /\ stdout' = Append(stdout, "Cannot write bmp file output")
            /\ exitStatus' = 1
            /\ UNCHANGED <<bmp, resultBmp, ptr, frees>>
       ELSE /\ bmp' = <<>>
            /\ resultBmp' = <<>>
            /\ ptr' = deallocateMemory(deallocateMemory(ptr, "bmp"),
                                       "resultBmp")
            /\ frees' = [bmp |-> frees.bmp + 1,
                         resultBmp |-> frees.resultBmp + 1]
            /\ stdout' = Append(stdout, "Algorithm time, Total time")
            /\ exitStatus' = 0
    /\ pc' = "exit"
    /\ UNCHANGED <<argc, radius, inFile, width, height, allocs, iter>>
    /\ UNCHANGED regionVars
    /\ UNCHANGED codecVars

Next ==
    \/ MainArgs
    \/ ReadOpen
    \/ ReadHeader
    \/ ReadPixel
    \/ ReadShort
    \/ ReadDone
    \/ MainAfterRead
    \/ Fork
    \/ \E t \in Threads : Claim(t)
    \/ \E t \in Threads : Step(t)
    \/ Join
    \/ CallWrite
    \/ WriteOpen
    \/ WriteNullReturns
    \/ WriteNullCrashes
    \/ WriteHeader
    \/ WritePixel
    \/ WriteDone
    \/ MainAfterWrite

Spec == Init /\ [][Next]_vars

(* ------------------- the codec alone: read, then write ---------------- *)

InitCodec ==
    /\ pc = "r_open"
    /\ argc = 4
    /\ radius = 0
    /\ inFile \in InputFiles
    /\ InitRest

\* writeBmp called with the header and the buffer readBmp has just filled
RoundTrip ==
    /\ pc = "read_ret"
    /\ readResult = "ok"
    /\ warg' = "bmp"
    /\ pc' = "w_open"
    /\ UNCHANGED <<argc, radius, inFile, inOpen, rk, header, width, height,
                   bmp, resultBmp, ptr, allocs, frees, readResult,
                   writeResult, iter, outFile, wk, nullOps, stdout,
                   exitStatus>>
    /\ UNCHANGED regionVars

NextCodec ==
    \/ ReadOpen
    \/ ReadHeader
    \/ ReadPixel
    \/ ReadShort
    \/ ReadDone
    \/ RoundTrip
    \/ WriteOpen
    \/ WriteNullReturns
    \/ WriteNullCrashes
    \/ WriteHeader
    \/ WritePixel
    \/ WriteDone

SpecCodec == InitCodec /\ [][NextCodec]_vars

(* -------- the first calls of the kernel, thread by thread ------------- *)

\* the pixels readBmp makes of the file generated from a seed
SeedImage(w, h, seed) ==
    [k \in 1..(w * h) |->
        Pixel(SeedByte(seed, PIXEL_REAL_SIZE * (k - 1)),
              SeedByte(seed, PIXEL_REAL_SIZE * (k - 1) + 1),
              SeedByte(seed, PIXEL_REAL_SIZE * (k - 1) + 2))]

\* main before the benchmark loop, readBmp having read a well-formed file
InitRegion ==
    /\ pc = "loop"
    /\ argc = 4
    /\ radius \in Radii
    /\ \E w \in 1..MaxWidth, h \in 1..MaxHeight, seed \in 0..MaxSeed :
          /\ inFile = [exists |-> TRUE,
                       bytes |-> FileBytes(w, h, seed, FullLength(w, h))]
          /\ header = FileBytes(w, h, seed, BMP_HEADER_SIZE)
          /\ width = w
          /\ height = h
          /\ rk = w * h
          /\ bmp = SeedImage(w, h, seed)
          /\ resultBmp = [k \in 1..(w * h) |-> Undef]
    /\ inOpen = FALSE
    /\ ptr = [bmp |-> "heap", resultBmp |-> "heap"]
    /\ allocs = [bmp |-> 1, resultBmp |-> 1]
    /\ frees = [bmp |-> 0, resultBmp |-> 0]
    /\ readResult = "ok"
    /\ writeResult = "unset"
    /\ iter = 0
    /\ team = 0
    /\ unclaimed = {}
    /\ workers = [t \in Threads |-> IdleWorker]
    /\ stores = <<>>
    /\ claims = <<>>
    /\ warg = "resultBmp"
    /\ outFile = [open |-> FALSE, bytes |-> <<>>]
    /\ wk = 0
    /\ nullOps = 0
    /\ stdout = <<>>
    /\ exitStatus = -1

\* the calls i = 0 .. RegionCalls-1 of the benchmark loop
ForkFirst == iter < RegionCalls /\ Fork

NextRegion ==
    \/ ForkFirst
    \/ \E t \in Threads : Claim(t)
    \/ \E t \in Threads : Step(t)
    \/ Join

SpecRegion == InitRegion /\ [][NextRegion]_vars

(* ------------------ the kernel alone, on every small image ------------ *)

\* every byte value occurs in every channel
LevelPixel(l) == [b |-> l, g |-> 255 - l, r |-> (3 * l + 1) % 256]

\* the images whose pixel k has the level base + k * step, for every base
GradientSteps == {0, 1, 85}

KernelImages(w, h) ==
    {[k \in 1..(w * h) |-> LevelPixel((base + (k - 1) * step) % 256)] :
        base \in 0..255, step \in GradientSteps}

InitKernel ==
    /\ pc = "k_call"
    /\ argc = 4
    /\ radius \in Radii
    /\ inFile = [exists |-> FALSE, bytes |-> <<>>]
    /\ inOpen = FALSE
    /\ rk = 0
    /\ header = <<>>
    /\ \E w \in 1..KMax, h \in 1..KMax :
          /\ width = w
          /\ height = h
          /\ bmp \in KernelImages(w, h)
          /\ resultBmp = [k \in 1..(w * h) |-> Undef]
    /\ ptr = [bmp |-> "heap", resultBmp |-> "heap"]
    /\ allocs = [bmp |-> 1, resultBmp |-> 1]
    /\ frees = [bmp |-> 0, resultBmp |-> 0]
    /\ readResult = "ok"
    /\ writeResult = "unset"
    /\ iter = 0
    /\ team = 0
    /\ unclaimed = {}
    /\ workers = [t \in Threads |-> IdleWorker]
    /\ stores = <<>>
    /\ claims = <<>>
    /\ warg = "resultBmp"
    /\ outFile = [open |-> FALSE, bytes |-> <<>>]
    /\ wk = 0
    /\ nullOps = 0
    /\ stdout = <<>>
    /\ exitStatus = -1

\* one call of processImageSmoothFilter, start to return
KernelCall ==
    /\ pc = "k_call"
    /\ resultBmp' = SmoothFilter(bmp, width, height, radius)
    /\ pc' = "k_ret"
    /\ UNCHANGED <<argc, radius, inFile, width, height, bmp, ptr, allocs,
                   frees, iter, stdout, exitStatus>>
    /\ UNCHANGED regionVars
    /\ UNCHANGED codecVars

NextKernel == KernelCall

SpecKernel == InitKernel /\ [][NextKernel]_vars

(* ------- the stores of one iteration, on sums of any window size ------ *)

\* window sizes: small ones, and the first sizes at which a mean just below
\* x.5 is no float (65536 = 256 x 256, 65537 = 1 x 65537, 66049 = 257 x 257)
RoundCounts == {1, 2, 3, 4, 6, 9, 65536, 65537, 66049}

\* sums around the means m/2, m odd and even
RoundSums(count) ==
    {s \in {(m * count) \div 2 + d : m \in {0, 1, 2, 127, 257, 509, 510},
                                     d \in {-1, 0, 1}} :
        s >= 0 /\ s <= 255 * count}

InitRound ==
    /\ pc = "s_sum"
    /\ argc = 4
    /\ radius = 0
    /\ inFile = [exists |-> FALSE, bytes |-> <<>>]
    /\ inOpen = FALSE
    /\ rk = 0
    /\ header = <<>>
    /\ width = 1
    /\ height = 1
    /\ bmp = <<>>
    /\ resultBmp = <<Undef>>
    /\ ptr = [bmp |-> "heap", resultBmp |-> "heap"]
    /\ allocs = [bmp |-> 1, resultBmp |-> 1]
    /\ frees = [bmp |-> 0, resultBmp |-> 0]
    /\ readResult = "ok"
    /\ writeResult = "unset"
    /\ iter = 0
    /\ team = 1
    /\ unclaimed = {}
    /\ \E count \in RoundCounts : \E s \in RoundSums(count) :
          workers = [t \in Threads |->
                        IF t = 1
                        THEN [row |-> 0, col |-> 0,
                              it |-> [NoIteration EXCEPT
                                         !.i = 0, !.j = 0, !.count = count,
                                         !.r = s, !.g = 255 * count - s,
                                         !.b = s \div 2]]
                        ELSE IdleWorker]
    /\ stores = <<>>
    /\ claims = <<>>
    /\ warg = "resultBmp"
    /\ outFile = [open |-> FALSE, bytes |-> <<>>]
    /\ wk = 0
    /\ nullOps = 0
    /\ stdout = <<>>
    /\ exitStatus = -1

\* the three stores at the end of the loop body, after the summation loop
StoreRounded ==
    /\ pc = "s_sum"
    /\ resultBmp' = [resultBmp EXCEPT ![1] = StoredPixel(workers[1].it)]
    /\ pc' = "s_stored"
    /\ UNCHANGED <<argc, radius, inFile, width, height, bmp, ptr, allocs,
                   frees, iter, stdout, exitStatus>>
    /\ UNCHANGED regionVars
    /\ UNCHANGED codecVars

NextRound == StoreRounded

SpecRound == InitRound /\ [][NextRound]_vars

(* ------------------------------ claims -------------------------------- *)

WritePcs == {"w_open", "w_fclose_null", "w_header", "w_pixels", "write_ret"}

\* processImageSmoothFilter has returned at least once and main still holds
\* both buffers
KernelReturned ==
    \/ pc = "loop" /\ iter >= 1
    \/ pc \in WritePcs

\* floor(S/N + 0.5) on the integers
HalfUpMean(sum, count) == (2 * sum + count) \div (2 * count)

\* C1 (as claimed): every channel stored for a pixel is floor(S/N + 0.5), S
\* the channel's sum over the clipped window and N the window's pixel count.
C1_StoresHalfUpMean ==
    pc = "s_stored" =>
        LET it == workers[1].it
        IN  /\ resultBmp[1].r = HalfUpMean(it.r, it.count)
            /\ resultBmp[1].g = HalfUpMean(it.g, it.count)
            /\ resultBmp[1].b = HalfUpMean(it.b, it.count)

\* C2: whenever a call of processImageSmoothFilter has returned, whatever
\* the team size, the assignment of rows to threads and the interleaving of
\* their iterations were, the destination buffer is the one a single thread
\* running the loop nest in order produces from the same source, width,
\* height and radius.
C2_ResultIndependentOfSchedule ==
    KernelReturned =>
        resultBmp = SmoothFilter(bmp, width, height, radius)

C2_Witness ==
    /\ pc = "loop"
    /\ iter >= 1
    /\ team = 2
    /\ width = 2
    /\ height = 2
    /\ radius = 1
    /\ stores = <<1, 1, 1, 1>>
    /\ resultBmp[1] # bmp[1]

\* C3: within one call no row is taken twice, no two threads run the same
\* row, no result position is stored to more than once, and when the call
\* returns every row was taken once and every position stored to once.
C3_DisjointWrites ==
    (pc = "kernel" \/ KernelReturned) =>
        /\ \A i \in DOMAIN claims : claims[i] <= 1
        /\ \A p \in DOMAIN stores : stores[p] <= 1
        /\ \A t1, t2 \in Threads :
              (t1 # t2 /\ workers[t1].row >= 0) =>
                  workers[t1].row # workers[t2].row
        /\ KernelReturned =>
              /\ \A i \in DOMAIN claims : claims[i] = 1
              /\ \A p \in DOMAIN stores : stores[p] = 1

C3_Witness ==
    /\ pc = "kernel"
    /\ workers[1].row = 0
    /\ workers[2].row = 1
    /\ workers[1].col = 1
    /\ workers[2].col = 1
    /\ stores[1] = 1
    /\ stores[width + 1] = 1

\* C4: when the input is a 54-byte header followed by exactly width*height
\* 3-byte pixels and writeBmp, called with what readBmp returned, succeeds,
\* the output file holds the input's bytes.
C4_RoundTrip ==
    (pc = "write_ret" /\ writeResult = "ok" /\ warg = "bmp"
        /\ WellFormed(inFile)) =>
        /\ outFile.bytes = inFile.bytes
        /\ ~outFile.open

C4_Witness ==
    /\ pc = "write_ret"
    /\ writeResult = "ok"
    /\ warg = "bmp"
    /\ WellFormed(inFile)
    /\ Len(inFile.bytes) = FullLength(2, 2)
    /\ outFile.bytes[BMP_HEADER_SIZE + 1] # outFile.bytes[BMP_HEADER_SIZE + 3]

\* C5: with radius 0 the destination buffer equals the source buffer.
C5_RadiusZeroIdentity ==
    (pc = "k_ret" /\ radius = 0) => resultBmp = bmp

C5_Witness ==
    /\ pc = "k_ret"
    /\ radius = 0
    /\ width = 2
    /\ height = 2
    /\ bmp[1] # bmp[2]
    /\ bmp[1] # bmp[3]
    /\ resultBmp = bmp

\* the file ends inside its header / inside its pixel data
ShortHeader == inFile.exists /\ Len(inFile.bytes) < BMP_HEADER_SIZE

ShortPixels ==
    /\ inFile.exists
    /\ Len(inFile.bytes) >= BMP_HEADER_SIZE
    /\ Len(inFile.bytes)
          < FullLength(getWidth(inFile.bytes), getHeight(inFile.bytes))

\* C6: once readBmp has returned, a file shorter than the header has made
\* it fail with no buffer ever allocated, a file with a full header and too
\* few pixel bytes has made it fail with its one buffer freed, and after
\* every failure bmp is NULL, nothing is left allocated and the file is
\* closed.
C6_TruncatedReadFails ==
    (readResult # "unset") =>
        /\ ShortHeader => (readResult = "fail" /\ allocs.bmp = 0)
        /\ ShortPixels =>
              (readResult = "fail" /\ allocs.bmp = 1 /\ frees.bmp = 1)
        /\ readResult = "fail" =>
              /\ ptr.bmp = "NULL"
              /\ bmp = <<>>
              /\ allocs.bmp = frees.bmp
              /\ ~inOpen

C6_Witness ==
    /\ pc = "read_ret"
    /\ readResult = "fail"
    /\ ShortPixels
    /\ rk = 1
    /\ frees.bmp = 1

\* C7 (as claimed): writeBmp makes no stdio call on a NULL handle, and a
\* failed writeBmp ends the driver with the diagnostic and status 1.
C7_NoCallOnUnopenedHandle ==
    /\ nullOps = 0
    /\ pc # "crash"
    /\ (pc = "exit" /\ writeResult = "fail") =>
          /\ exitStatus = 1
          /\ stdout = <<"Cannot write bmp file output">>

\* C8: the kernel runs only after readBmp has returned success with every
\* pixel read and the file closed; a call of the kernel returns only when
\* every row is taken and every thread is through; writeBmp runs only after
\* the 100th call has returned with every position stored to; and after a
\* failed readBmp the kernel and writeBmp never run.
C8_StrictOrder ==
    /\ (pc = "kernel" \/ KernelReturned) =>
          /\ readResult = "ok"
          /\ rk = PixelCount
          /\ ~inOpen
          /\ Len(bmp) = width * height
          /\ \A k \in DOMAIN bmp : bmp[k] # Undef
    /\ KernelReturned =>
          /\ unclaimed = {}
          /\ \A t \in Threads : workers[t].row = -1
          /\ \A p \in DOMAIN resultBmp : resultBmp[p] # Undef
    /\ pc \in WritePcs =>
          /\ iter = BenchmarkRuns
          /\ \A p \in DOMAIN stores : stores[p] >= 1
    /\ readResult = "fail" =>
          /\ iter = 0
          /\ team = 0
          /\ pc \in {"read_ret", "exit"}
          /\ outFile = [open |-> FALSE, bytes |-> <<>>]
          /\ writeResult = "unset"
          /\ ptr.resultBmp = "none"

C8_Witness ==
    /\ pc = "w_pixels"
    /\ iter = BenchmarkRuns
    /\ team = 2
    /\ height = 2
    /\ width = 2
    /\ wk = 1

\* C9 (as claimed): when main has exited after a successful readBmp, both
\* buffers were deallocated exactly once.
C9_BuffersFreedAtExit ==
    (pc = "exit" /\ readResult = "ok") =>
        /\ frees = [bmp |-> 1, resultBmp |-> 1]
        /\ ptr = [bmp |-> "NULL", resultBmp |-> "NULL"]

\* C10 (as claimed): for every radius, wrapping ones included, the window
\* of every iteration (i, j) satisfies starti <= i <= endi <= height-1 and
\* startj <= j <= endj <= width-1, and count >= 1.
C10_WindowHoldsCentre ==
    \A t \in Threads :
        LET it == workers[t].it
        IN  (pc = "kernel" /\ workers[t].row >= 0 /\ it.i >= 0) =>
                /\ it.starti <= it.i
                /\ it.i <= it.endi
                /\ it.endi <= height - 1
                /\ it.startj <= it.j
                /\ it.j <= it.endj
                /\ it.endj <= width - 1
                /\ it.count >= 1

=============================================================================
